---- MODULE Spec2Model ----
(***************************************************************************)
(* Model of app.py: the start-up bootstrap (setup_environment) and the     *)
(* request pipeline (process_lipsync -> generate_speech -> run_wav2lip)    *)
(* over the two fixed output paths OUTPUT_WAV and OUTPUT_VIDEO.            *)
(*                                                                         *)
(* Spec      one request at a time (the form's single request thread)      *)
(* SpecConc  two request threads running process_lipsync concurrently      *)
(***************************************************************************)
EXTENDS Integers, FiniteSets, Sequences, TLC

\* ---------------------------------------------------------------- bounds
MaxRequests == 3

\* ------------------------------------------------------------- constants
OUTPUT_WAV == "generated_speech.wav"
OUTPUT_VIDEO == "lip_synced_output.mp4"
\* cleanup that forgets the video
OutputFiles_WavOnly == <<OUTPUT_WAV>>

OutputFiles == <<OUTPUT_WAV, OUTPUT_VIDEO>>
MinVoiceSamples == 3
SampleName(i) == <<"trump_sample_1.wav", "trump_sample_2.wav", "trump_sample_3.wav">>[i]
SampleNames == {SampleName(i) : i \in 1..3}
OtherNames == {"notes.txt", "trump_extra.wav"}
VoiceNames == SampleNames \cup OtherNames
Texts == {"The wall", "Nobody knows"}
ExitCodes == {"0", "1", "2"}
TTSFaults == {"none", "init", "load", "inference", "save"}
Absent == [absent |-> TRUE]
None == <<>>
Threads == {"form-1", "form-2"}
FormThread == {"form-1"}

VARIABLES
  phase,        \* main(): "boot", "serving" (setup ok), "setup_failed"
  setupError,   \* message of the exception setup_environment raised, or "ok"
  voiceExists,  \* os.path.exists(VOICE_DIR)
  voiceFiles,   \* os.listdir(VOICE_DIR)
  zipFile,      \* ZIP_FILE: "absent", "valid", "corrupt"
  extracted,    \* os.path.exists(EXTRACTED_FOLDER)
  fs,           \* contents of OUTPUT_WAV and OUTPUT_VIDEO, or Absent
  nreq,         \* number of requests started so far
  pc,           \* position of each request thread in process_lipsync
  ci,           \* index of f in the cleanup loop
  text,         \* the request's text
  req,          \* the request's number
  success,      \* local 'success'
  msg,          \* local 'msg'
  output_path,  \* local 'output_path'
  returncode,   \* exit code of the renderer subprocess, "none" if not run/launched
  synthCalls,   \* calls of generate_speech in the current request
  renderCalls,  \* calls of run_wav2lip in the current request
  result,       \* what process_lipsync returned (or the exception it let out)
  prev          \* how the thread's previous call ended: its text, result and the files it left

envVars == <<phase, setupError, voiceExists, voiceFiles, zipFile, extracted>>
locVars == <<ci, text, req, success, msg, output_path, returncode, synthCalls, renderCalls, result, prev>>
vars == <<phase, setupError, voiceExists, voiceFiles, zipFile, extracted, fs, nreq,
          pc, ci, text, req, success, msg, output_path, returncode, synthCalls,
          renderCalls, result, prev>>

\* ---------------------------------------------------------------- files
WavContent(r, t, c) == [req |-> r, text |-> t, complete |-> c]
VideoContent(r, w, c) == [req |-> r, wavReq |-> w.req, text |-> w.text, complete |-> c]
StaleWav == WavContent(0, "The wall", TRUE)
StaleVideo == VideoContent(0, StaleWav, TRUE)

\* ------------------------------------------------------------- bootstrap
\* the sample count checked off by one
SetupOutcome_OffByOne(zf, ex, files) ==
  IF ~ex /\ zf = "absent" THEN "Missing ZIP file"
  ELSE IF ~ex /\ zf = "corrupt" THEN "BadZipFile"
  ELSE IF Cardinality(files) < MinVoiceSamples - 1 THEN "Need 3+ voice samples"
  ELSE "ok"

\* setup_environment: the exception it raises ("ok" when it returns).
SetupOutcome(zf, ex, files) ==
  IF ~ex /\ zf = "absent" THEN "Missing ZIP file"
  ELSE IF ~ex /\ zf = "corrupt" THEN "BadZipFile"
  ELSE IF Cardinality(files) < MinVoiceSamples THEN "Need 3+ voice samples"
  ELSE "ok"

setup_environment ==
  /\ phase = "boot"
  /\ voiceExists' = TRUE
  /\ extracted' = (extracted \/ zipFile = "valid")
  /\ setupError' = SetupOutcome(zipFile, extracted, voiceFiles)
  /\ phase' = IF setupError' = "ok" THEN "serving" ELSE "setup_failed"
  /\ UNCHANGED <<voiceFiles, zipFile, fs, nreq, pc, locVars>>

\* what process_lipsync returned
Returned(status, video) == [raised |-> FALSE, status |-> status, video |-> video]

NoResult == [pending |-> TRUE]

NoCall == [pc |-> "idle"]

\* what a file holds, whoever wrote it
Holds(f) == IF f = Absent THEN Absent ELSE [text |-> f.text, complete |-> f.complete]

\* how a call ended, kept when it returned a video
Snapshot(at, t, res, files) ==
  IF at = "done"
  THEN [pc |-> at, text |-> t, result |-> res,
        wav |-> Holds(files[OUTPUT_WAV]), video |-> Holds(files[OUTPUT_VIDEO])]
  ELSE NoCall

\* ------------------------------------------------------------------ init
Init ==
  /\ phase = "boot"
  /\ setupError = "ok"
  /\ voiceExists \in BOOLEAN
  /\ voiceFiles \in SUBSET VoiceNames
  /\ (~voiceExists => voiceFiles = {})
  /\ zipFile \in {"absent", "valid", "corrupt"}
  /\ extracted \in BOOLEAN
  /\ fs \in [{OUTPUT_WAV, OUTPUT_VIDEO} -> {Absent, StaleWav, StaleVideo}]
  /\ fs[OUTPUT_WAV] \in {Absent, StaleWav}
  /\ fs[OUTPUT_VIDEO] \in {Absent, StaleVideo}
  /\ nreq = 0
  /\ pc = [p \in Threads |-> "idle"]
  /\ ci = [p \in Threads |-> 1]
  /\ text = [p \in Threads |-> "None"]
  /\ req = [p \in Threads |-> 0]
  /\ success = [p \in Threads |-> FALSE]
  /\ msg = [p \in Threads |-> None]
  /\ output_path = [p \in Threads |-> None]
  /\ returncode = [p \in Threads |-> "none"]
  /\ synthCalls = [p \in Threads |-> 0]
  /\ renderCalls = [p \in Threads |-> 0]
  /\ result = [p \in Threads |-> NoResult]
  /\ prev = [p \in Threads |-> NoCall]

\* ------------------------------------------------------- speech synthesis
\* Index of the first trump_sample_<i>.wav that is not in the directory, 0 if none.
FirstMissing(files) ==
  IF \E i \in 1..3 : SampleName(i) \notin files
  THEN CHOOSE i \in 1..3 : /\ SampleName(i) \notin files
                           /\ \A j \in 1..(i-1) : SampleName(j) \in files
  ELSE 0

MissingSample(i) == <<"Missing sample: ", SampleName(i)>>

TTSFailed(detail) == <<"TTS failed: ">> \o detail

\* generate_speech(text) for request r.  fault is the library call that
\* raises (TextToSpeech(), load_audio, tts_with_preset, torchaudio.save) and
\* partial says whether a failing save left a truncated file behind.
\* Every exception is caught at line 100: raised is FALSE on every path.
generate_speech(t, r, files, wav, fault, partial) ==
  LET m == FirstMissing(files) IN
  IF fault = "init"
    THEN [raised |-> FALSE, success |-> FALSE, msg |-> TTSFailed(<<"TextToSpeech">>), wav |-> wav]
  ELSE IF m = 1
    THEN [raised |-> FALSE, success |-> FALSE, msg |-> TTSFailed(MissingSample(1)), wav |-> wav]
  ELSE IF fault = "load"
    THEN [raised |-> FALSE, success |-> FALSE, msg |-> TTSFailed(<<"load_audio">>), wav |-> wav]
  ELSE IF m # 0
    THEN [raised |-> FALSE, success |-> FALSE, msg |-> TTSFailed(MissingSample(m)), wav |-> wav]
  ELSE IF fault = "inference"
    THEN [raised |-> FALSE, success |-> FALSE, msg |-> TTSFailed(<<"tts_with_preset">>), wav |-> wav]
  ELSE IF fault = "save"
    THEN [raised |-> FALSE, success |-> FALSE, msg |-> TTSFailed(<<"torchaudio.save">>),
          wav |-> IF partial THEN WavContent(r, t, FALSE) ELSE wav]
  ELSE [raised |-> FALSE, success |-> TRUE, msg |-> <<OUTPUT_WAV>>, wav |-> WavContent(r, t, TRUE)]

\* --------------------------------------------------------------- renderer
\* What the inference.py subprocess leaves at --outfile: exit code 0 means it
\* wrote the video from the --audio file; a failing run leaves the path as it
\* was or leaves a truncated file.
Wav2LipInference(r, wav, video, code, partial) ==
  IF code = "0" THEN VideoContent(r, wav, TRUE)
  ELSE IF partial /\ wav # Absent THEN VideoContent(r, wav, FALSE)
  ELSE video

\* a renderer that hands back the waveform path on success
run_wav2lip_ReturnsWav(r, wav, video, outcome, partial) ==
  IF outcome = "launch_error"
    THEN [raised |-> FALSE, success |-> FALSE, value |-> <<"Unexpected error: ", "launch">>, video |-> video]
  ELSE IF outcome # "0"
    THEN [raised |-> FALSE, success |-> FALSE,
          value |-> <<"Wav2Lip error: ", "non-zero exit status", outcome>>,
          video |-> Wav2LipInference(r, wav, video, outcome, partial)]
  ELSE [raised |-> FALSE, success |-> TRUE, value |-> <<OUTPUT_WAV>>,
        video |-> Wav2LipInference(r, wav, video, outcome, partial)]

\* How the subprocess can end: it exits 0 only when the --audio file is there
\* and whole.
RenderOutcomes(wav) ==
  {"launch_error"} \cup
  (IF wav # Absent /\ wav.complete THEN ExitCodes ELSE ExitCodes \ {"0"})

\* run_wav2lip() for request r.  outcome is "launch_error" when
\* subprocess.run itself raises, else the exit code of the subprocess.
run_wav2lip(r, wav, video, outcome, partial) ==
  IF outcome = "launch_error"
    THEN [raised |-> FALSE, success |-> FALSE, value |-> <<"Unexpected error: ", "launch">>, video |-> video]
  ELSE IF outcome # "0"
    THEN [raised |-> FALSE, success |-> FALSE,
          value |-> <<"Wav2Lip error: ", "non-zero exit status", outcome>>,
          video |-> Wav2LipInference(r, wav, video, outcome, partial)]
  ELSE [raised |-> FALSE, success |-> TRUE, value |-> <<OUTPUT_VIDEO>>,
        video |-> Wav2LipInference(r, wav, video, outcome, partial)]

\* -------------------------------------------------------- process_lipsync
\* a handler that lets the exception through
ProcessingFailed_Reraise(e) == [raised |-> TRUE, status |-> <<"Processing failed: ", e>>, video |-> None]

\* the handler at lines 144-145
ProcessingFailed(e) == Returned(<<"Processing failed: ", e>>, None)

\* a return statement that reports msg on success too
PipelineReturn_StatusMsg(ok, m, path) ==
  IF ok THEN Returned(m, path) ELSE Returned(m, None)

\* the return statement of line 143
PipelineReturn(ok, m, path) ==
  IF ok THEN Returned(<<"Success!">>, path) ELSE Returned(m, None)

\* a cleanup loop that falls through to the renderer
NextFile_SkipSynth(p) ==
  IF ci[p] < Len(OutputFiles)
  THEN /\ ci' = [ci EXCEPT ![p] = ci[p] + 1]
       /\ pc' = [pc EXCEPT ![p] = "cleanup_check"]
  ELSE /\ ci' = ci
       /\ pc' = [pc EXCEPT ![p] = "render"]

NextFile(p) ==
  IF ci[p] < Len(OutputFiles)
  THEN /\ ci' = [ci EXCEPT ![p] = ci[p] + 1]
       /\ pc' = [pc EXCEPT ![p] = "cleanup_check"]
  ELSE /\ ci' = ci
       /\ pc' = [pc EXCEPT ![p] = "synthesize"]

\* a form that queues requests: one call at a time
Start_Locked(p, t) ==
  /\ \A q \in Threads \ {p} : pc[q] \in {"idle", "done", "fail", "raised"}
  /\ phase = "serving"
  /\ pc[p] \in {"idle", "done", "fail", "raised"}
  /\ nreq < MaxRequests
  /\ nreq' = nreq + 1
  /\ pc' = [pc EXCEPT ![p] = "cleanup_check"]
  /\ ci' = [ci EXCEPT ![p] = 1]
  /\ text' = [text EXCEPT ![p] = t]
  /\ req' = [req EXCEPT ![p] = nreq + 1]
  /\ success' = [success EXCEPT ![p] = FALSE]
  /\ msg' = [msg EXCEPT ![p] = None]
  /\ output_path' = [output_path EXCEPT ![p] = None]
  /\ returncode' = [returncode EXCEPT ![p] = "none"]
  /\ synthCalls' = [synthCalls EXCEPT ![p] = 0]
  /\ renderCalls' = [renderCalls EXCEPT ![p] = 0]
  /\ result' = [result EXCEPT ![p] = NoResult]
  /\ prev' = [prev EXCEPT ![p] = Snapshot(pc[p], text[p], result[p], fs)]
  /\ UNCHANGED <<envVars, fs>>

\* the web form calls process_lipsync(text)
Start(p, t) ==
  /\ phase = "serving"
  /\ pc[p] \in {"idle", "done", "fail", "raised"}
  /\ nreq < MaxRequests
  /\ nreq' = nreq + 1
  /\ pc' = [pc EXCEPT ![p] = "cleanup_check"]
  /\ ci' = [ci EXCEPT ![p] = 1]
  /\ text' = [text EXCEPT ![p] = t]
  /\ req' = [req EXCEPT ![p] = nreq + 1]
  /\ success' = [success EXCEPT ![p] = FALSE]
  /\ msg' = [msg EXCEPT ![p] = None]
  /\ output_path' = [output_path EXCEPT ![p] = None]
  /\ returncode' = [returncode EXCEPT ![p] = "none"]
  /\ synthCalls' = [synthCalls EXCEPT ![p] = 0]
  /\ renderCalls' = [renderCalls EXCEPT ![p] = 0]
  /\ result' = [result EXCEPT ![p] = NoResult]
  /\ prev' = [prev EXCEPT ![p] = Snapshot(pc[p], text[p], result[p], fs)]
  /\ UNCHANGED <<envVars, fs>>

\* line 133: if os.path.exists(f)
CleanupExists(p) ==
  /\ pc[p] = "cleanup_check"
  /\ IF fs[OutputFiles[ci[p]]] # Absent
     THEN pc' = [pc EXCEPT ![p] = "cleanup_remove"] /\ ci' = ci
     ELSE NextFile(p)
  /\ UNCHANGED <<envVars, fs, nreq, text, req, success, msg, output_path,
                 returncode, synthCalls, renderCalls, result, prev>>

\* line 134: os.remove(f); it raises when the file is gone (FileNotFoundError)
\* or cannot be deleted (PermissionError: the file is open elsewhere).
CleanupRemove(p, denied) ==
  /\ pc[p] = "cleanup_remove"
  /\ LET f == OutputFiles[ci[p]] IN
     IF fs[f] = Absent \/ denied
     THEN /\ result' = [result EXCEPT ![p] =
                 ProcessingFailed(IF fs[f] = Absent THEN "FileNotFoundError" ELSE "PermissionError")]
          /\ pc' = [pc EXCEPT ![p] = IF result'[p].raised THEN "raised" ELSE "fail"]
          /\ UNCHANGED <<fs, ci>>
     ELSE /\ fs' = [fs EXCEPT ![f] = Absent]
          /\ NextFile(p)
          /\ UNCHANGED result
  /\ UNCHANGED <<envVars, nreq, text, req, success, msg, output_path,
                 returncode, synthCalls, renderCalls, prev>>

\* a pipeline that renders whatever the synthesizer reported
Synthesize_NoShortCircuit(p, fault, partial) ==
  /\ pc[p] = "synthesize"
  /\ LET g == generate_speech(text[p], req[p], voiceFiles, fs[OUTPUT_WAV], fault, partial) IN
     /\ synthCalls' = [synthCalls EXCEPT ![p] = synthCalls[p] + 1]
     /\ fs' = [fs EXCEPT ![OUTPUT_WAV] = g.wav]
     /\ IF g.raised
        THEN /\ result' = [result EXCEPT ![p] = ProcessingFailed("generate_speech")]
             /\ pc' = [pc EXCEPT ![p] = IF result'[p].raised THEN "raised" ELSE "fail"]
             /\ UNCHANGED <<success, msg>>
        ELSE /\ success' = [success EXCEPT ![p] = g.success]
             /\ msg' = [msg EXCEPT ![p] = g.msg]
             /\ IF g.success
                THEN /\ pc' = [pc EXCEPT ![p] = "render"]
                     /\ UNCHANGED result
                ELSE /\ pc' = [pc EXCEPT ![p] = "render"]
                     /\ UNCHANGED result
  /\ UNCHANGED <<envVars, nreq, ci, text, req, output_path, returncode, renderCalls, prev>>

\* lines 137-139
Synthesize(p, fault, partial) ==
  /\ pc[p] = "synthesize"
  /\ LET g == generate_speech(text[p], req[p], voiceFiles, fs[OUTPUT_WAV], fault, partial) IN
     /\ synthCalls' = [synthCalls EXCEPT ![p] = synthCalls[p] + 1]
     /\ fs' = [fs EXCEPT ![OUTPUT_WAV] = g.wav]
     /\ IF g.raised
        THEN /\ result' = [result EXCEPT ![p] = ProcessingFailed("generate_speech")]
             /\ pc' = [pc EXCEPT ![p] = IF result'[p].raised THEN "raised" ELSE "fail"]
             /\ UNCHANGED <<success, msg>>
        ELSE /\ success' = [success EXCEPT ![p] = g.success]
             /\ msg' = [msg EXCEPT ![p] = g.msg]
             /\ IF g.success
                THEN /\ pc' = [pc EXCEPT ![p] = "render"]
                     /\ UNCHANGED result
                ELSE /\ pc' = [pc EXCEPT ![p] = "fail"]
                     /\ result' = [result EXCEPT ![p] = Returned(g.msg, None)]
  /\ UNCHANGED <<envVars, nreq, ci, text, req, output_path, returncode, renderCalls, prev>>

\* lines 142-143
Render(p, outcome, partial) ==
  /\ pc[p] = "render"
  /\ LET w == run_wav2lip(req[p], fs[OUTPUT_WAV], fs[OUTPUT_VIDEO], outcome, partial) IN
     /\ renderCalls' = [renderCalls EXCEPT ![p] = renderCalls[p] + 1]
     /\ returncode' = [returncode EXCEPT ![p] = IF outcome \in ExitCodes THEN outcome ELSE "none"]
     /\ fs' = [fs EXCEPT ![OUTPUT_VIDEO] = w.video]
     /\ IF w.raised
        THEN /\ result' = [result EXCEPT ![p] = ProcessingFailed("run_wav2lip")]
             /\ pc' = [pc EXCEPT ![p] = IF result'[p].raised THEN "raised" ELSE "fail"]
             /\ UNCHANGED <<success, output_path>>
        ELSE /\ success' = [success EXCEPT ![p] = w.success]
             /\ output_path' = [output_path EXCEPT ![p] = w.value]
             /\ result' = [result EXCEPT ![p] = PipelineReturn(w.success, msg[p], w.value)]
             /\ pc' = [pc EXCEPT ![p] = IF w.success THEN "done" ELSE "fail"]
  /\ UNCHANGED <<envVars, nreq, ci, text, req, msg, synthCalls, prev>>

\* ------------------------------------------------------- specifications
Request(p) ==
  \/ \E t \in Texts : Start(p, t)
  \/ CleanupExists(p)
  \/ \E denied \in BOOLEAN : CleanupRemove(p, denied)
  \/ \E fault \in TTSFaults, partial \in BOOLEAN : Synthesize(p, fault, partial)
  \/ \E outcome \in RenderOutcomes(fs[OUTPUT_WAV]), partial \in BOOLEAN : Render(p, outcome, partial)

Next ==
  \/ setup_environment
  \/ \E p \in FormThread : Request(p)

Spec == Init /\ [][Next]_vars

\* two request threads after a successful bootstrap
InitConc ==
  /\ Init
  /\ voiceExists /\ voiceFiles = SampleNames
  /\ zipFile = "valid" /\ extracted

NextConc ==
  \/ setup_environment
  \/ \E p \in Threads : Request(p)

SpecConc == InitConc /\ [][NextConc]_vars
\* ------------------------------------------------------------ properties
Finished(p) == pc[p] \in {"done", "fail", "raised"}
SynthFailed(p) == msg[p] # None /\ Head(msg[p]) = "TTS failed: "
SynthOk(p) == msg[p] = <<OUTPUT_WAV>>
RenderExitedNonZero(p) == returncode[p] \in ExitCodes \ {"0"}
Stage(at) ==
  IF at \in {"cleanup_check", "cleanup_remove"} THEN "CLEANUP"
  ELSE IF at = "synthesize" THEN "SYNTHESIZE"
  ELSE IF at = "render" THEN "RENDER"
  ELSE IF at = "done" THEN "DONE"
  ELSE IF at = "idle" THEN "IDLE"
  ELSE "FAIL"
OwnVideo(p) ==
  /\ fs[OUTPUT_VIDEO] # Absent
  /\ fs[OUTPUT_VIDEO].req = req[p]
  /\ fs[OUTPUT_VIDEO].wavReq = req[p]

\* C1: when synthesis succeeded and the renderer's subprocess exited non-zero,
\* the returned status is the renderer's message "Wav2Lip error: <detail>"
\* and the returned video is None.
C1_RenderFailureStatus ==
  \A p \in Threads :
    (Finished(p) /\ SynthOk(p) /\ RenderExitedNonZero(p)) =>
      /\ result[p].status = <<"Wav2Lip error: ", "non-zero exit status", returncode[p]>>
      /\ result[p].video = None

\* C2: a request in which generate_speech failed never invoked run_wav2lip,
\* returned the "TTS failed: ..." text with video None, and leaves no video at
\* OUTPUT_VIDEO.
C2_SynthFailure ==
  \A p \in Threads :
    SynthFailed(p) =>
      /\ renderCalls[p] = 0
      /\ pc[p] = "fail"
      /\ result[p] = Returned(msg[p], None)
      /\ Head(result[p].status) = "TTS failed: "
      /\ fs[OUTPUT_VIDEO] = Absent

C2_Witness ==
  \E p \in Threads :
    /\ req[p] >= 2
    /\ pc[p] = "fail"
    /\ result[p].status = TTSFailed(MissingSample(3))

\* C3: when synthesis succeeded and the renderer exited with code 0 the
\* request returns exactly ("Success!", OUTPUT_VIDEO) and both output files
\* exist when it returns.
C3_Success ==
  \A p \in Threads :
    (Finished(p) /\ SynthOk(p) /\ returncode[p] = "0") =>
      /\ result[p] = Returned(<<"Success!">>, <<OUTPUT_VIDEO>>)
      /\ fs[OUTPUT_WAV] # Absent
      /\ fs[OUTPUT_VIDEO] # Absent

C3_Witness ==
  \E p \in Threads :
    /\ pc[p] = "done"
    /\ returncode[p] = "0"
    /\ text[p] = "Nobody knows"
    /\ fs[OUTPUT_VIDEO] # Absent

\* C4 as stated: whenever a request has returned, a video present at
\* OUTPUT_VIDEO was written by the renderer of that request from the waveform
\* of that request.
C4_NoStaleVideoLeft ==
  \A p \in FormThread :
    (Finished(p) /\ fs[OUTPUT_VIDEO] # Absent) => OwnVideo(p)

\* C4 amended: a returned video is never stale, and a request that got past
\* cleanup (any status but "Processing failed: ...") leaves no video of an
\* earlier request; only a request whose cleanup raised may leave one, and it
\* returns None for the video.
C4_NoStaleVideoServed ==
  \A p \in FormThread :
    Finished(p) =>
      /\ result[p].video # None => (OwnVideo(p) /\ fs[OUTPUT_VIDEO].complete)
      /\ (fs[OUTPUT_VIDEO] # Absent /\ ~OwnVideo(p)) =>
            /\ Head(result[p].status) = "Processing failed: "
            /\ result[p].video = None
            /\ synthCalls[p] = 0

C4_Witness ==
  \E p \in FormThread :
    /\ req[p] >= 2
    /\ prev[p] # NoCall
    /\ pc[p] = "fail"
    /\ RenderExitedNonZero(p)
    /\ fs[OUTPUT_VIDEO] = Absent

\* C5 as stated: setup_environment returns without raising exactly when (the
\* extracted folder exists or the archive is present) and the voice directory
\* holds at least 3 entries.
C5_SetupIffPresent ==
  [][(phase = "boot" /\ phase' # "boot") =>
       ((phase' = "serving") <=>
          ((extracted \/ zipFile # "absent") /\ Cardinality(voiceFiles) >= 3))]_vars

\* C5 amended: setup_environment returns without raising exactly when (the
\* extracted folder exists or the archive is present and extracts) and the
\* voice directory holds at least 3 entries; it raises when the archive is
\* missing and nothing is extracted, and whenever there are fewer than 3
\* entries.
C5_SetupIffExtractable ==
  [][(phase = "boot" /\ phase' # "boot") =>
       /\ (phase' = "serving") <=>
            ((extracted \/ zipFile = "valid") /\ Cardinality(voiceFiles) >= 3)
       /\ (~extracted /\ zipFile = "absent") => phase' = "setup_failed"
       /\ Cardinality(voiceFiles) < 3 => phase' = "setup_failed"]_vars

C5_Witness ==
  /\ phase = "serving"
  /\ zipFile = "valid"
  /\ Cardinality(voiceFiles) = 3
  /\ nreq = 0

\* C6: process_lipsync never lets an exception out: whatever raised in
\* cleanup, synthesis or rendering, a finished request holds a returned
\* (status, video) pair with video None on failure, and generate_speech and
\* run_wav2lip return a (flag, value) pair on every input.
C6_NoExceptionEscapes ==
  /\ \A p \in Threads :
       /\ pc[p] # "raised"
       /\ Finished(p) =>
            /\ ~result[p].raised
            /\ result[p].status # None
            /\ pc[p] = "fail" => result[p].video = None
  /\ \A t \in Texts, fault \in TTSFaults, partial \in BOOLEAN :
       LET g == generate_speech(t, nreq, voiceFiles, fs[OUTPUT_WAV], fault, partial)
       IN  ~g.raised /\ g.success \in BOOLEAN /\ g.msg # None
  /\ \A outcome \in RenderOutcomes(fs[OUTPUT_WAV]), partial \in BOOLEAN :
       LET w == run_wav2lip(nreq, fs[OUTPUT_WAV], fs[OUTPUT_VIDEO], outcome, partial)
       IN  ~w.raised /\ w.success \in BOOLEAN /\ w.value # None

C6_Witness ==
  \E p \in Threads :
    /\ pc[p] = "fail"
    /\ result[p] = ProcessingFailed("PermissionError")

\* the stage order shared by both readings of C7
StageOrder(fromStages) ==
  \A p \in Threads :
    /\ Stage(pc'[p]) # Stage(pc[p]) =>
         \/ Stage(pc'[p]) = "CLEANUP" /\ Stage(pc[p]) \in {"IDLE", "DONE", "FAIL"}
         \/ Stage(pc'[p]) = "SYNTHESIZE" /\ Stage(pc[p]) = "CLEANUP"
         \/ Stage(pc'[p]) = "RENDER" /\ Stage(pc[p]) = "SYNTHESIZE"
         \/ Stage(pc'[p]) = "DONE" /\ Stage(pc[p]) = "RENDER"
         \/ Stage(pc'[p]) = "FAIL" /\ Stage(pc[p]) \in fromStages
    /\ synthCalls'[p] <= 1
    /\ renderCalls'[p] <= 1
    /\ Stage(pc'[p]) = "RENDER" => (success'[p] /\ synthCalls'[p] = 1 /\ renderCalls'[p] = 0)
    /\ Stage(pc'[p]) = "DONE" => (synthCalls'[p] = 1 /\ renderCalls'[p] = 1)

\* C7 as stated: stages run in the order CLEANUP, SYNTHESIZE, RENDER, DONE,
\* synthesizer and renderer at most once, RENDER only after a successful
\* SYNTHESIZE, and FAIL is entered only from SYNTHESIZE or RENDER.
C7_FailOnlyFromStages ==
  [][StageOrder({"SYNTHESIZE", "RENDER"})]_vars

\* C7 amended: the same order and at-most-once calls, but FAIL is entered
\* from SYNTHESIZE, from RENDER, or from CLEANUP when deleting an existing
\* output file raises (a missing file is not an error).
C7_FailAlsoFromCleanup ==
  [][/\ StageOrder({"CLEANUP", "SYNTHESIZE", "RENDER"})
     /\ \A p \in Threads :
          (Stage(pc[p]) = "CLEANUP" /\ Stage(pc'[p]) = "FAIL") =>
            /\ pc[p] = "cleanup_remove"
            /\ Head(result'[p].status) = "Processing failed: "]_vars

C7_Witness ==
  \E p \in Threads :
    /\ pc[p] = "fail"
    /\ synthCalls[p] = 0
    /\ ci[p] = 2
    /\ fs[OUTPUT_WAV] = Absent
    /\ fs[OUTPUT_VIDEO] # Absent

\* C8: a second successful run with the same text right after a successful
\* run returns "Success!" as the first did and leaves the same files, one
\* waveform and one video, both rewritten by the second run.
C8_Idempotent ==
  \A p \in FormThread :
    (pc[p] = "done" /\ prev[p] # NoCall /\ prev[p].text = text[p]) =>
      /\ result[p].status = <<"Success!">>
      /\ result[p] = prev[p].result
      /\ Holds(fs[OUTPUT_WAV]) = prev[p].wav
      /\ Holds(fs[OUTPUT_VIDEO]) = prev[p].video
      /\ fs[OUTPUT_WAV] # Absent /\ fs[OUTPUT_WAV].req = req[p]
      /\ OwnVideo(p)

C8_Witness ==
  \E p \in FormThread :
    /\ pc[p] = "done"
    /\ prev[p] # NoCall
    /\ prev[p].text = text[p]
    /\ Holds(fs[OUTPUT_VIDEO]) = prev[p].video

\* C9: nothing serialises two concurrent requests on the output paths: while
\* one request is between its cleanup and its return, the other can start,
\* delete the files, synthesize and render.
InFlight(p) == pc[p] \in {"cleanup_check", "cleanup_remove", "synthesize", "render"}

C9_NotSerialised ==
  \A p \in Threads : \A q \in Threads \ {p} :
    InFlight(p) =>
      /\ (~InFlight(q) /\ nreq < MaxRequests) => ENABLED (\E t \in Texts : Start(q, t))
      /\ pc[q] = "cleanup_check" => ENABLED CleanupExists(q)
      /\ pc[q] = "cleanup_remove" => ENABLED CleanupRemove(q, FALSE)
      /\ pc[q] = "synthesize" => ENABLED Synthesize(q, "none", FALSE)
      /\ pc[q] = "render" => ENABLED Render(q, "1", FALSE)

\* a request returned "Success!" with a video its renderer made from the
\* other request's waveform
C9_Witness ==
  \E p \in Threads :
    /\ pc[p] = "done"
    /\ result[p] = Returned(<<"Success!">>, <<OUTPUT_VIDEO>>)
    /\ fs[OUTPUT_VIDEO] # Absent
    /\ fs[OUTPUT_VIDEO].req = req[p]
    /\ fs[OUTPUT_VIDEO].wavReq # req[p]
    /\ fs[OUTPUT_VIDEO].text # text[p]

\* C10: after a successful setup_environment the three files generate_speech
\* loads are in the voice directory, and no request fails with
\* "Missing sample".
C10_SamplesPresent ==
  phase = "serving" =>
    /\ SampleNames \subseteq voiceFiles
    /\ \A p \in Threads : \A i \in 1..3 : msg[p] # TTSFailed(MissingSample(i))
====
